---- MODULE Spec2Model ----
(***************************************************************************)
(* A model of blockchain.py: the Blockchain class (chain, pending pool,    *)
(* peer set, proof of work, chain validation, consensus) and the /mine     *)
(* handler that drives it.                                                 *)
(*                                                                         *)
(* Representation of Python values:                                        *)
(*   - a str or bytes value is a sequence of character codes; a hex        *)
(*     digest is a sequence of hex digit values 0..15;                     *)
(*   - a value whose Python type varies (previous_hash: None, int or str)  *)
(*     is a record [ty, val] with val always a sequence;                   *)
(*   - a block is a record with the five keys of the dict of new_block;    *)
(*   - an outcome that may be an exception carries exc, the name of the    *)
(*     exception or "None".                                                *)
(***************************************************************************)
EXTENDS Integers, Sequences, FiniteSets, TLC

\* ---- bounds of the model ----
MaxChain == 3      \* mining is enabled while the local chain is shorter
MaxPool == 2       \* new_transaction is enabled while the pool is shorter
MaxPeerLen == 3    \* longest chain a peer reports
MaxLastProof == 60 \* greatest last_proof handed to proof_of_work on its own
MaxBlocks == 3     \* longest list handed to validate_chain on its own
NumThreads == 2    \* request threads of the server
MaxCalls == 3      \* handler calls begun in a run of the threaded server

\* ---- program constants ----
GenesisProof == 100
GenesisPreviousHash == 1
RewardAmount == 1
PrefixLen == 4

\* ---- Python values ----
PyNone == [ty |-> "NoneType", val |-> <<>>]
PyInt(n) == [ty |-> "int", val |-> <<n>>]
PyStr(s) == [ty |-> "str", val |-> s]

\* bool(v): None, 0 and "" are falsy
Truthy(v) ==
    CASE v.ty = "int" -> v.val # <<0>>
      [] v.ty = "str" -> v.val # <<>>
      [] OTHER -> FALSE

\* f'{n}' for a non-negative int: its decimal digits as character codes
RECURSIVE Str(_)
Str(n) == IF n < 10 THEN <<48 + n>> ELSE Str(n \div 10) \o <<48 + (n % 10)>>

\* hashlib.sha256(data).hexdigest(), scaled down: a deterministic digest of
\* the whole byte string, 8 hex digits long, whose four leading digits are
\* all zero for one input in five (instead of one in 16^4).  The bytes are
\* mixed pairwise, halves first.
MixByte(b) == (b * b * 7 + b + 11) % 32749
MixPair(l, r, n) == (l * l + 31 * r + n) % 32749

RECURSIVE Mix(_)
Mix(data) ==
    IF Len(data) = 0 THEN 5381
    ELSE IF Len(data) = 1 THEN MixByte(data[1])
    ELSE MixPair(Mix(SubSeq(data, 1, Len(data) \div 2)),
                 Mix(SubSeq(data, Len(data) \div 2 + 1, Len(data))),
                 Len(data))

HexDigits(a) ==
    <<a % 5, a % 5, a % 5, a % 5,
      (a \div 4096) % 16, (a \div 256) % 16, (a \div 16) % 16, a % 16>>

sha256_hexdigest(data) == HexDigits(Mix(data))

\* ---- json.dumps(block, sort_keys=True).encode() ----
\* Keys are written in sorted order: index, previous_hash, proof, timestamp,
\* transactions; inside a transaction: amount, recipient, sender.  44 is ','
\* and 34 is '"'; strings are quoted, ints are written in decimal.
DumpsValue(v) ==
    CASE v.ty = "int" -> Str(v.val[1])
      [] v.ty = "str" -> <<34>> \o v.val \o <<34>>
      [] OTHER -> <<110, 117, 108, 108>>

DumpsTransaction(tx) ==
    <<123>> \o Str(tx.amount) \o <<44, 34>> \o tx.recipient \o <<34, 44, 34>>
            \o tx.sender \o <<34, 125>>

RECURSIVE DumpsTransactions(_)
DumpsTransactions(txs) ==
    IF txs = <<>> THEN <<>>
    ELSE DumpsTransaction(Head(txs)) \o DumpsTransactions(Tail(txs))

json_dumps(block) ==
    <<123>> \o Str(block.index) \o <<44>> \o DumpsValue(block.previous_hash)
            \o <<44>> \o Str(block.proof) \o <<44>> \o Str(block.timestamp)
            \o <<44, 91>> \o DumpsTransactions(block.transactions) \o <<93, 125>>

\* Blockchain.hash
hash(block) == sha256_hexdigest(json_dumps(block))

\* Blockchain.validate_proof
validate_proof(last_proof, proof) ==
    SubSeq(sha256_hexdigest(Str(last_proof) \o Str(proof)), 1, PrefixLen)
        = <<0, 0, 0, 0>>

\* Blockchain.proof_of_work: the while loop, started at proof = 0
RECURSIVE SearchFrom(_, _)
SearchFrom(last_proof, proof) ==
    IF validate_proof(last_proof, proof) THEN proof
    ELSE SearchFrom(last_proof, proof + 1)

\* Variant: the search starts at proof = 1
proof_of_work_FromOne(last_proof) == SearchFrom(last_proof, 1)

\* Variant: the loop counter is incremented once more after the loop
proof_of_work_OffByOne(last_proof) == SearchFrom(last_proof, 0) + 1

proof_of_work(last_proof) == SearchFrom(last_proof, 0)

\* Blockchain.last_block (defined on a non-empty chain)
last_block(chain) == chain[Len(chain)]

\* self.chain.append(block); self.current_transactions = pool; return block
Appended(chain, block, pool) ==
    [chain |-> Append(chain, block), current_transactions |-> pool, block |-> block]

\* Variant: blocks are numbered from 0
new_block_FromZero(chain, current_transactions, proof, previous_hash, t) ==
    Appended(chain,
             [index |-> Len(chain),
              timestamp |-> t,
              transactions |-> current_transactions,
              proof |-> proof,
              previous_hash |-> IF Truthy(previous_hash) THEN previous_hash
                                ELSE PyStr(hash(chain[Len(chain)]))],
             <<>>)

\* Variant: the default previous_hash is the hash of the first block
new_block_HashFirst(chain, current_transactions, proof, previous_hash, t) ==
    Appended(chain,
             [index |-> Len(chain) + 1,
              timestamp |-> t,
              transactions |-> current_transactions,
              proof |-> proof,
              previous_hash |-> IF Truthy(previous_hash) THEN previous_hash
                                ELSE PyStr(hash(chain[1]))],
             <<>>)

\* Variant: the pool is not reset after the block is appended
new_block_KeepPool(chain, current_transactions, proof, previous_hash, t) ==
    Appended(chain,
             [index |-> Len(chain) + 1,
              timestamp |-> t,
              transactions |-> current_transactions,
              proof |-> proof,
              previous_hash |-> IF Truthy(previous_hash) THEN previous_hash
                                ELSE PyStr(hash(chain[Len(chain)]))],
             current_transactions)

\* Blockchain.new_block on a ledger (chain, current_transactions), with t
\* the value time() returns: the new ledger and the block returned
new_block(chain, current_transactions, proof, previous_hash, t) ==
    Appended(chain,
             [index |-> Len(chain) + 1,
              timestamp |-> t,
              transactions |-> current_transactions,
              proof |-> proof,
              previous_hash |-> IF Truthy(previous_hash) THEN previous_hash
                                ELSE PyStr(hash(last_block(chain)))],
             <<>>)

\* Blockchain.new_transaction: the new pool and the index returned
new_transaction(chain, current_transactions, sender, recipient, amount) ==
    [current_transactions |->
         Append(current_transactions,
                [sender |-> sender, recipient |-> recipient, amount |-> amount]),
     ret |-> last_block(chain).index + 1]

\* Blockchain.validate_chain: blocks[0] raises IndexError on an empty list
RECURSIVE ValidateFrom(_, _, _)
ValidateFrom(blocks, last, current_index) ==
    IF ~(current_index < Len(blocks)) THEN TRUE
    ELSE LET block == blocks[current_index + 1]
         IN  IF block.previous_hash # PyStr(hash(last)) THEN FALSE
             ELSE IF ~validate_proof(last.proof, block.proof) THEN FALSE
             ELSE ValidateFrom(blocks, block, current_index + 1)

\* Variant: the walk starts at the third block
validate_chain_FromThird(blocks) ==
    IF blocks = <<>> THEN [exc |-> "IndexError", val |-> FALSE]
    ELSE IF Len(blocks) = 1 THEN [exc |-> "None", val |-> TRUE]
    ELSE [exc |-> "None", val |-> ValidateFrom(blocks, blocks[2], 2)]

validate_chain(blocks) ==
    IF blocks = <<>> THEN [exc |-> "IndexError", val |-> FALSE]
    ELSE [exc |-> "None", val |-> ValidateFrom(blocks, blocks[1], 1)]

\* ---- Blockchain.resolve_conflicts ----
\* A response of requests.get(f'http://{node}/chain'):
\*   kind "200"             status 200, a JSON body with 'length' and 'chain'
\*   kind "non200"          any other status code
\*   kind "KeyError"        status 200, a JSON body lacking 'length' or 'chain'
\*   kind "ConnectionError" the peer is unreachable: requests.get raises
Response(kind, length, blocks) == [kind |-> kind, length |-> length, chain |-> blocks]

\* new_chain is None or a list
NoChain == [isNone |-> TRUE, val |-> <<>>]
SomeChain(blocks) == [isNone |-> FALSE, val |-> blocks]

\* Variant: current_length is not updated when a chain is selected
ScanStep_KeepLength(response, st) ==
    CASE response.kind = "ConnectionError" -> [st EXCEPT !.exc = "ConnectionError"]
      [] response.kind = "KeyError" -> [st EXCEPT !.exc = "KeyError"]
      [] response.kind = "non200" -> st
      [] OTHER ->
           IF ~(response.length > st.current_length) THEN st
           ELSE IF response.chain = <<>> THEN [st EXCEPT !.exc = "IndexError"]
           ELSE IF validate_chain(response.chain).val
                THEN [st EXCEPT !.new_chain = [isNone |-> FALSE,
                                               val |-> response.chain]]
                ELSE st

\* Variant: a longer chain is selected without validate_chain
ScanStep_NoValidate(response, st) ==
    CASE response.kind = "ConnectionError" -> [st EXCEPT !.exc = "ConnectionError"]
      [] response.kind = "KeyError" -> [st EXCEPT !.exc = "KeyError"]
      [] response.kind = "non200" -> st
      [] OTHER ->
           IF ~(response.length > st.current_length) THEN st
           ELSE [st EXCEPT !.new_chain = [isNone |-> FALSE, val |-> response.chain],
                           !.current_length = response.length]

\* The if statement of the loop body: longer is the value of
\* length > current_length and v the outcome of validate_chain(chain), which
\* `and` asks for only when longer is true
Selected(st, length, blocks, longer, v) ==
    IF ~longer THEN st
    ELSE IF v.exc # "None" THEN [st EXCEPT !.exc = v.exc]
    ELSE IF v.val THEN [st EXCEPT !.new_chain = SomeChain(blocks),
                                  !.current_length = length]
    ELSE st

\* One iteration of the for loop; st holds new_chain and current_length
ScanStep(response, st) ==
    CASE response.kind = "ConnectionError" -> [st EXCEPT !.exc = "ConnectionError"]
      [] response.kind = "KeyError" -> [st EXCEPT !.exc = "KeyError"]
      [] response.kind = "non200" -> st
      [] OTHER ->
           Selected(st, response.length, response.chain,
                    response.length > st.current_length,
                    validate_chain(response.chain))

\* The for loop over the responses in scan order; an exception ends it
RECURSIVE ScanPeers(_, _)
ScanPeers(responses, st) ==
    IF responses = <<>> \/ st.exc # "None" THEN st
    ELSE ScanPeers(Tail(responses), ScanStep(Head(responses), st))

\* Variant: the selected chain is installed and False is returned
Replaced_ReturnFalse(chain, st) ==
    IF st.exc # "None" THEN [exc |-> st.exc, ret |-> FALSE, chain |-> chain]
    ELSE IF ~st.new_chain.isNone /\ st.new_chain.val # <<>>
         THEN [exc |-> "None", ret |-> FALSE, chain |-> st.new_chain.val]
         ELSE [exc |-> "None", ret |-> FALSE, chain |-> chain]

\* The statements after the loop: `if new_chain` is false for None and for
\* an empty list
Replaced(chain, st) ==
    IF st.exc # "None" THEN [exc |-> st.exc, ret |-> FALSE, chain |-> chain]
    ELSE IF ~st.new_chain.isNone /\ st.new_chain.val # <<>>
         THEN [exc |-> "None", ret |-> TRUE, chain |-> st.new_chain.val]
         ELSE [exc |-> "None", ret |-> FALSE, chain |-> chain]

\* Variant: the chain of the last response reporting more than the local
\* length is installed as it is, with the test `new_chain is not None`
resolve_conflicts_Unchecked(chain, responses) ==
    IF SelectSeq(responses, LAMBDA r : r.kind = "200" /\ r.length > Len(chain)) = <<>>
    THEN [exc |-> "None", ret |-> FALSE, chain |-> chain]
    ELSE [exc |-> "None", ret |-> TRUE,
          chain |-> SelectSeq(responses,
                              LAMBDA r : r.kind = "200" /\ r.length > Len(chain))
                        [Len(SelectSeq(responses,
                                       LAMBDA r : r.kind = "200"
                                                  /\ r.length > Len(chain)))].chain]

\* The whole method on local chain `chain`: the exception raised (or
\* "None"), the value returned and the local chain afterwards
resolve_conflicts(chain, responses) ==
    Replaced(chain, ScanPeers(responses, [exc |-> "None", new_chain |-> NoChain,
                                          current_length |-> Len(chain)]))

\* ---- the /mine handler ----
Zero == <<48>>                \* the sender "0"
node_identifier == <<110>>    \* this node's address (a uuid, shortened)

\* The reward transaction of lines 197-201
Reward == [sender |-> Zero, recipient |-> node_identifier, amount |-> RewardAmount]

mine(chain, current_transactions, t) ==
    LET last_proof == last_block(chain).proof
        proof == proof_of_work(last_proof)
        nt == new_transaction(chain, current_transactions, Zero, node_identifier,
                              RewardAmount)
    IN  new_block(chain, nt.current_transactions, proof, PyNone, t)

\* ---- Blockchain.register_node ----
\* urlparse(address).netloc for the addresses submitted in this model
Addresses == {"http://a:5000", "http://b:5000", "http://b:5000/chain"}
Netloc(address) == IF address = "http://a:5000" THEN "a:5000" ELSE "b:5000"
register_node(nodes, address) == nodes \cup {Netloc(address)}

\* ---- inputs ----
Times == {0}                  \* values of time(): one instant
Senders == {<<65>>}           \* "A"
Recipients == {<<66>>}        \* "B"
\* Each submission carries a different amount: 2 for the first transaction
\* of a pool, 3 for the second, and so on
Amounts(current_transactions) == {Len(current_transactions) + 2}
PeerId == <<112>>             \* the reward recipient on a peer

\* Chains a peer reports.  PeerChain(n, off) is a chain of n blocks whose
\* links and proofs are right and whose 'index' fields are all shifted by off.
PeerMined(c, off) ==
    Append(c, [index |-> Len(c) + 1 + off, timestamp |-> 0,
               transactions |-> <<[sender |-> Zero, recipient |-> PeerId,
                                   amount |-> RewardAmount]>>,
               proof |-> proof_of_work(c[Len(c)].proof),
               previous_hash |-> PyStr(hash(c[Len(c)]))])

RECURSIVE PeerChain(_, _)
PeerChain(n, off) ==
    IF n = 1
    THEN <<[index |-> 1 + off, timestamp |-> 0, transactions |-> <<>>,
            proof |-> GenesisProof, previous_hash |-> PyInt(GenesisPreviousHash)]>>
    ELSE PeerMined(PeerChain(n - 1, off), off)

TamperHash(c) == [c EXCEPT ![Len(c)].previous_hash = PyStr(<<0, 0, 0, 0, 0, 0, 0, 0>>)]
TamperProof(c) == [c EXCEPT ![Len(c)].proof = @ + 1]

PeerChains ==
    {<<>>}
    \cup {PeerChain(n, 0) : n \in 1..MaxPeerLen}
    \cup {PeerChain(MaxPeerLen - 1, 1),
          TamperHash(PeerChain(MaxPeerLen, 0)),
          TamperProof(PeerChain(MaxPeerLen, 0))}

\* The 'length' a peer reports is the length of its chain or, for the two
\* shortest chains, more than that
Responses ==
    {Response("200", Len(c), c) : c \in PeerChains \ {<<>>, PeerChain(1, 0)}}
    \cup {Response("200", Len(c) + 2, c) : c \in {<<>>, PeerChain(1, 0)}}
    \cup {Response(k, 0, <<>>) : k \in {"non200", "KeyError", "ConnectionError"}}

\* Arguments of direct new_block calls: a proof that is valid for the last
\* block or the next integer; no previous_hash, a falsy one, the hash of the
\* last block, or others
ProofArgs(c) == {proof_of_work(last_block(c).proof), proof_of_work(last_block(c).proof) + 1}
PreviousHashArgs(c) ==
    {PyNone, PyInt(0), PyStr(hash(last_block(c))), PyInt(GenesisPreviousHash),
     PyStr(<<0, 0, 0, 0, 0, 0, 0, 0>>)}

\* ---- what an observer of one resolve_conflicts call notes ----
\* The chains of the peers that pass validate_chain
ValidPeerChains == {c \in PeerChains \ {<<>>} : validate_chain(c).val}

\* A response qualifies against local length L: it reports a chain, its
\* length is > L and the chain passes validate_chain
Qualifies(r, L, valid) ==
    /\ r.kind = "200"
    /\ r.length > L
    /\ r.chain \in valid

\* A response offers a longer chain that fails validate_chain
Rejectable(r, L, valid) ==
    /\ r.kind = "200"
    /\ r.length > L
    /\ r.chain # <<>>
    /\ r.chain \notin valid

FetchFailed(r) == r.kind # "200"
Fetched(scan) == SelectSeq(scan, LAMBDA r : ~FetchFailed(r))

NoScan ==
    [allReport |-> FALSE, greatest |-> {}, contest |-> FALSE, rejected |-> FALSE,
     failed |-> FALSE, first |-> <<>>,
     without |-> [exc |-> "None", ret |-> FALSE, chain |-> <<>>]]

\* scan: the responses in scan order; c: the local chain before the call;
\* r: the outcome of the call; valid: the peer chains passing validate_chain
\* Q: the positions of the qualifying responses
Noted(scan, c, r, valid, Q) ==
    [\* every peer reported a chain (of at least one block) and a length
     allReport |-> \A i \in 1..Len(scan) :
                       scan[i].kind = "200" /\ scan[i].chain # <<>>,
     \* the chains of the qualifying responses of greatest reported length
     greatest |-> {scan[i].chain :
                      i \in {i \in Q : \A j \in Q : scan[j].length <= scan[i].length}},
     \* the chain of the first response in scan order among the qualifying
     \* responses of greatest reported length (<<>> when none qualifies)
     first |-> IF Q = {} THEN <<>>
               ELSE scan[CHOOSE i \in Q :
                             /\ \A j \in Q : scan[j].length <= scan[i].length
                             /\ \A j \in Q : j < i => scan[j].length < scan[i].length
                        ].chain,
     \* two responses qualify, with different lengths
     contest |-> \E i, j \in Q : scan[i].length < scan[j].length,
     \* some response offers a longer chain that fails validate_chain
     rejected |-> \E i \in 1..Len(scan) : Rejectable(scan[i], Len(c), valid),
     \* some fetch failed
     failed |-> \E i \in 1..Len(scan) : FetchFailed(scan[i]),
     \* the outcome of the call had the failing peers not been scanned
     without |-> IF \E i \in 1..Len(scan) : FetchFailed(scan[i])
                 THEN resolve_conflicts(c, Fetched(scan)) ELSE r]

Observe(scan, c, r, valid) ==
    Noted(scan, c, r, valid,
          {i \in 1..Len(scan) : Qualifies(scan[i], Len(c), valid)})

\* ---- state ----
VARIABLES
    chain,                  \* self.chain
    current_transactions,   \* self.current_transactions
    nodes,                  \* self.nodes
    last,                   \* the last completed operation: its name, its
                            \* result, the ledger it started from and, for
                            \* resolve_conflicts, what the observer noted
    submitted,              \* transactions passed to new_transaction since
                            \* the last block creation, in call order
    promised,               \* the index new_transaction returned for each of
                            \* them (0 once a chain replacement intervened)
    proper,                 \* every direct new_block call so far was given a
                            \* proof valid for the last block and a
                            \* previous_hash that is absent, falsy or the
                            \* hash of the last block
    pc,                     \* the position of each request thread in its
                            \* handler ("idle" between two requests)
    local,                  \* the local variables of each request thread
    heap                    \* which list objects self.chain,
                            \* self.current_transactions and the
                            \* 'transactions' of each block are

vars == <<chain, current_transactions, nodes, last, submitted, promised, proper,
          pc, local, heap>>

NoBlock == [index |-> 0, timestamp |-> 0, transactions |-> <<>>, proof |-> 0,
            previous_hash |-> PyNone]

\* The variables of the request threads
tvars == <<pc, local, heap>>

Threads == 1..NumThreads

\* The locals of a thread outside any handler
NoLocal ==
    [op |-> "none", ref |-> 0, tx |-> <<>>, proof |-> 0, block |-> NoBlock,
     new_chain |-> <<>>, snap |-> <<>>, length |-> 0, response |-> <<>>]

\* After __init__: the genesis block holds the list the pool was first bound
\* to (list 1), the pool is the list new_block rebound it to (list 2); lists
\* that came with a peer's chain are numbered 0, as nothing else refers to them
ThreadsIdle ==
    /\ pc = [t \in Threads |-> "idle"]
    /\ local = [t \in Threads |-> NoLocal]
    /\ heap = [chain |-> 1, pool |-> 2, txs |-> <<1>>, next |-> 3, calls |-> 0,
               sent |-> 0, replaced |-> FALSE]

Op(name, exc, ret, index, block, scan) ==
    [op |-> name, exc |-> exc, ret |-> ret, index |-> index, block |-> block,
     chain0 |-> chain, pool0 |-> current_transactions,
     submitted0 |-> submitted, promised0 |-> promised, scan |-> scan]

\* Blockchain.__init__
Constructed(nb) ==
    /\ chain = nb.chain
    /\ current_transactions = nb.current_transactions
    /\ nodes = {}
    /\ last = [op |-> "init", exc |-> "None", ret |-> FALSE, index |-> 0,
               block |-> nb.block, chain0 |-> <<>>, pool0 |-> <<>>,
               submitted0 |-> <<>>, promised0 |-> <<>>,
               scan |-> NoScan]
    /\ submitted = <<>>
    /\ promised = <<>>
    /\ proper = TRUE
    /\ ThreadsIdle

Init ==
    \E t \in Times :
        Constructed(new_block(<<>>, <<>>, GenesisProof, PyInt(GenesisPreviousHash), t))

\* The step of a new_transaction call: tx the transaction passed, nt the
\* outcome of the call
Submitted(tx, nt) ==
    /\ current_transactions' = nt.current_transactions
    /\ submitted' = Append(submitted, tx)
    /\ promised' = Append(promised, nt.ret)
    /\ last' = Op("new_transaction", "None", FALSE, nt.ret, NoBlock, NoScan)

\* POST /transactions/new with all three fields present
NewTransaction ==
    /\ Len(current_transactions) < MaxPool
    /\ \E sender \in Senders, recipient \in Recipients,
          amount \in Amounts(current_transactions) :
        Submitted([sender |-> sender, recipient |-> recipient, amount |-> amount],
                  new_transaction(chain, current_transactions, sender, recipient,
                                  amount))
    /\ UNCHANGED <<chain, nodes, proper, tvars>>

\* The step of a mine call: m the outcome of the handler, reward the outcome
\* of its new_transaction call
Mined(m, reward) ==
    /\ chain' = m.chain
    /\ current_transactions' = m.current_transactions
    /\ last' = [Op("mine", "None", FALSE, m.block.index, m.block, NoScan)
                   EXCEPT !.promised0 = Append(promised, reward.ret)]

\* GET /mine.  The reward transaction is submitted by the handler itself, so
\* the observer notes the index promised for it with the others.
Mine ==
    /\ Len(chain) < MaxChain
    /\ \E t \in Times :
        Mined(mine(chain, current_transactions, t),
              new_transaction(chain, current_transactions, Zero, node_identifier,
                              RewardAmount))
    /\ submitted' = <<>>
    /\ promised' = <<>>
    /\ UNCHANGED <<nodes, proper, tvars>>

\* POST /nodes/register, one address
RegisterNode ==
    /\ \E address \in Addresses :
        /\ nodes' = register_node(nodes, address)
        /\ last' = Op("register_node", "None", FALSE, 0, NoBlock, NoScan)
    /\ UNCHANGED <<chain, current_transactions, submitted, promised, proper, tvars>>

\* The step of a resolve_conflicts call: scan the responses in scan order,
\* r the outcome of the call
Resolved(scan, r, valid) ==
    /\ chain' = r.chain
    /\ last' = Op("resolve_conflicts", r.exc, r.ret, 0, NoBlock,
                  Observe(scan, chain, r, valid))
    /\ promised' = IF r.ret THEN [i \in 1..Len(promised) |-> 0] ELSE promised

\* GET /nodes/resolve: the peers of self.nodes are scanned in some order and
\* each answers with some response
Scanned(responses, valid) ==
    \E scan \in [1..Cardinality(nodes) -> responses] :
        Resolved(scan, resolve_conflicts(chain, scan), valid)

ResolveConflicts ==
    /\ Scanned(Responses, ValidPeerChains)
    /\ UNCHANGED <<current_transactions, nodes, submitted, proper, tvars>>

\* The step of a new_block call: nb the outcome of the call
Created(nb) ==
    /\ chain' = nb.chain
    /\ current_transactions' = nb.current_transactions
    /\ last' = Op("new_block", "None", FALSE, nb.block.index, nb.block, NoScan)

\* A direct call of Blockchain.new_block with any arguments
NewBlock ==
    /\ Len(chain) < MaxChain
    /\ \E proof \in ProofArgs(chain), previous_hash \in PreviousHashArgs(chain),
          t \in Times :
        /\ Created(new_block(chain, current_transactions, proof, previous_hash, t))
        /\ proper' = (/\ proper
                      /\ validate_proof(last_block(chain).proof, proof)
                      /\ \/ ~Truthy(previous_hash)
                         \/ previous_hash = PyStr(hash(last_block(chain))))
    /\ submitted' = <<>>
    /\ promised' = <<>>
    /\ UNCHANGED <<nodes, tvars>>

\* The node as its HTTP interface drives it
Next == NewTransaction \/ Mine \/ RegisterNode \/ ResolveConflicts

Spec == Init /\ [][Next]_vars

\* The ledger driven by direct calls of new_transaction and new_block
NextLedger == NewTransaction \/ NewBlock

SpecLedger == Init /\ [][NextLedger]_vars

\* ---- the handlers run by concurrent request threads ----
\* app.run serves each request on a thread of its own and the code takes no
\* lock, so the handlers interleave.  A step of a thread is one statement's
\* access to the shared ledger; what a statement computes from its locals
\* alone belongs to the step of the access before it.

\* What the peers answer while request threads run: an honest chain of two
\* or of three blocks, or a status other than 200
ThreadResponses ==
    {Response("200", 2, PeerChain(2, 0)), Response("200", 3, PeerChain(3, 0)),
     Response("non200", 0, <<>>)}

\* list.append(tx) on list object ref: the pool, the blocks of the chain and
\* the blocks threads have built see it when their list is that object
PoolAppended(ref, tx) ==
    IF heap.pool = ref THEN Append(current_transactions, tx) ELSE current_transactions

ChainAppended(ref, tx) ==
    [i \in 1..Len(chain) |->
        IF heap.txs[i] = ref
        THEN [chain[i] EXCEPT !.transactions = Append(@, tx)]
        ELSE chain[i]]

LocalAppended(ref, tx, u) ==
    IF pc[u] = "b_append" /\ local[u].ref = ref
    THEN [local[u] EXCEPT !.block.transactions = Append(@, tx)]
    ELSE local[u]

\* A thread takes a request while fewer than MaxCalls have been taken
Takes(t) == pc[t] = "idle" /\ heap.calls < MaxCalls

\* POST /transactions/new, line 50: self.current_transactions is loaded.
\* The transaction of the k-th request has amount k + 1.
TxLoad(t) ==
    /\ Takes(t)
    /\ pc' = [pc EXCEPT ![t] = "t_append"]
    /\ local' = [local EXCEPT ![t] =
                    [NoLocal EXCEPT !.op = "new_transaction",
                                    !.ref = heap.pool,
                                    !.tx = <<[sender |-> <<65>>, recipient |-> <<66>>,
                                              amount |-> heap.sent + 2]>>]]
    /\ heap' = [heap EXCEPT !.calls = @ + 1, !.sent = @ + 1]
    /\ UNCHANGED <<chain, current_transactions, nodes, last, submitted, promised,
                   proper>>

\* lines 50-54: .append(...) on the list that was loaded
TxAppend(t) ==
    /\ pc[t] = "t_append"
    /\ current_transactions' = PoolAppended(local[t].ref, local[t].tx[1])
    /\ chain' = ChainAppended(local[t].ref, local[t].tx[1])
    /\ pc' = [pc EXCEPT ![t] = "t_return"]
    /\ local' = [u \in Threads |->
                    IF u = t THEN local[t]
                    ELSE LocalAppended(local[t].ref, local[t].tx[1], u)]
    /\ UNCHANGED <<nodes, last, submitted, promised, proper, heap>>

\* line 56: self.last_block['index'] + 1 is returned; the handler answers
TxReturn(t) ==
    /\ pc[t] = "t_return"
    /\ pc' = [pc EXCEPT ![t] = "idle"]
    /\ local' = [local EXCEPT ![t] =
                    [NoLocal EXCEPT !.op = "new_transaction",
                                    !.length = last_block(chain).index + 1]]
    /\ UNCHANGED <<chain, current_transactions, nodes, last, submitted, promised,
                   proper, heap>>

\* GET /mine, lines 192-193: the last block's proof is read and
\* proof_of_work runs on it
MineRead(t) ==
    /\ Takes(t)
    /\ pc' = [pc EXCEPT ![t] = "m_load"]
    /\ local' = [local EXCEPT ![t] =
                    [NoLocal EXCEPT !.op = "mine",
                                    !.proof = proof_of_work(last_block(chain).proof)]]
    /\ heap' = [heap EXCEPT !.calls = @ + 1]
    /\ UNCHANGED <<chain, current_transactions, nodes, last, submitted, promised,
                   proper>>

\* lines 197 and 50: self.current_transactions is loaded for the reward
MineLoad(t) ==
    /\ pc[t] = "m_load"
    /\ pc' = [pc EXCEPT ![t] = "m_append"]
    /\ local' = [local EXCEPT ![t].ref = heap.pool]
    /\ UNCHANGED <<chain, current_transactions, nodes, last, submitted, promised,
                   proper, heap>>

\* lines 50-54: the reward is appended to the list that was loaded (the
\* index new_transaction returns at line 56 is dropped by the handler)
MineAppend(t) ==
    /\ pc[t] = "m_append"
    /\ current_transactions' = PoolAppended(local[t].ref, Reward)
    /\ chain' = ChainAppended(local[t].ref, Reward)
    /\ pc' = [pc EXCEPT ![t] = "b_build"]
    /\ local' = [u \in Threads |->
                    IF u = t THEN local[t]
                    ELSE LocalAppended(local[t].ref, Reward, u)]
    /\ UNCHANGED <<nodes, last, submitted, promised, proper, heap>>

\* new_block, lines 29-35: the block is built from len(self.chain), the pool
\* list itself (not a copy) and the hash of the last block
Built(t, nb) ==
    local' = [local EXCEPT ![t].block = nb.block, ![t].ref = heap.pool]

BlockBuild(t) ==
    /\ pc[t] = "b_build"
    /\ pc' = [pc EXCEPT ![t] = "b_append"]
    /\ \E time \in Times :
           Built(t, new_block(chain, current_transactions, local[t].proof, PyNone, time))
    /\ UNCHANGED <<chain, current_transactions, nodes, last, submitted, promised,
                   proper, heap>>

\* line 36: self.chain.append(block)
BlockAppend(t) ==
    /\ pc[t] = "b_append"
    /\ chain' = Append(chain, local[t].block)
    /\ heap' = [heap EXCEPT !.txs = Append(@, local[t].ref)]
    /\ pc' = [pc EXCEPT ![t] = "b_reset"]
    /\ UNCHANGED <<current_transactions, nodes, last, submitted, promised, proper,
                   local>>

\* line 37: self.current_transactions = [], a new list; the handler answers
BlockReset(t) ==
    /\ pc[t] = "b_reset"
    /\ current_transactions' = <<>>
    /\ heap' = [heap EXCEPT !.pool = heap.next, !.next = @ + 1]
    /\ pc' = [pc EXCEPT ![t] = "idle"]
    /\ local' = [local EXCEPT ![t] = [NoLocal EXCEPT !.op = "mine"]]
    /\ UNCHANGED <<chain, nodes, last, submitted, promised, proper>>

\* GET /nodes/resolve, lines 156-169: len(self.chain) is read and the peers
\* are scanned; the loop reads nothing else of the ledger.  A call that
\* raises, or that selected no chain, ends here.
Selection(t, st) ==
    /\ pc' = [pc EXCEPT ![t] = IF st.exc = "None" /\ ~st.new_chain.isNone
                                  /\ st.new_chain.val # <<>>
                               THEN "r_install" ELSE "idle"]
    /\ local' = [local EXCEPT ![t] =
                    [NoLocal EXCEPT !.op = "resolve_conflicts",
                                    !.new_chain = st.new_chain.val]]

ResolveScan(t) ==
    /\ Takes(t)
    /\ \E scan \in [1..Cardinality(nodes) -> ThreadResponses] :
           Selection(t, ScanPeers(scan, [exc |-> "None", new_chain |-> NoChain,
                                         current_length |-> Len(chain)]))
    /\ heap' = [heap EXCEPT !.calls = @ + 1]
    /\ UNCHANGED <<chain, current_transactions, nodes, last, submitted, promised,
                   proper>>

\* lines 172-174: self.chain = new_chain, a list no thread has seen.  The
\* list self.chain was stays as it is in the hands of the threads that
\* loaded it.
ResolveInstall(t) ==
    /\ pc[t] = "r_install"
    /\ chain' = local[t].new_chain
    /\ heap' = [heap EXCEPT !.chain = heap.next, !.next = @ + 1,
                            !.txs = [i \in 1..Len(local[t].new_chain) |-> 0],
                            !.replaced = TRUE]
    /\ pc' = [pc EXCEPT ![t] = "idle"]
    /\ local' = [u \in Threads |->
                    IF u = t THEN [NoLocal EXCEPT !.op = "resolve_conflicts"]
                    ELSE IF local[u].op = "full_chain" /\ pc[u] # "idle"
                            /\ local[u].ref = heap.chain
                         THEN [local[u] EXCEPT !.snap = chain]
                         ELSE local[u]]
    /\ UNCHANGED <<current_transactions, nodes, last, submitted, promised, proper>>

\* GET /chain, line 235: blockchain.chain is loaded
ChainLoad(t) ==
    /\ Takes(t)
    /\ pc' = [pc EXCEPT ![t] = "f_length"]
    /\ local' = [local EXCEPT ![t] =
                    [NoLocal EXCEPT !.op = "full_chain", !.ref = heap.chain]]
    /\ heap' = [heap EXCEPT !.calls = @ + 1]
    /\ UNCHANGED <<chain, current_transactions, nodes, last, submitted, promised,
                   proper>>

\* line 236: len(blockchain.chain)
ChainLength(t) ==
    /\ pc[t] = "f_length"
    /\ pc' = [pc EXCEPT ![t] = "f_respond"]
    /\ local' = [local EXCEPT ![t].length = Len(chain)]
    /\ UNCHANGED <<chain, current_transactions, nodes, last, submitted, promised,
                   proper, heap>>

\* line 238: jsonify writes out the list that was loaded, as it is now
ChainRespond(t) ==
    /\ pc[t] = "f_respond"
    /\ pc' = [pc EXCEPT ![t] = "idle"]
    /\ local' = [local EXCEPT ![t] =
                    [NoLocal EXCEPT
                        !.op = "full_chain",
                        !.response = <<[chain |-> IF local[t].ref = heap.chain
                                                  THEN chain ELSE local[t].snap,
                                        length |-> local[t].length]>>]]
    /\ UNCHANGED <<chain, current_transactions, nodes, last, submitted, promised,
                   proper, heap>>

\* POST /nodes/register with one address: self.nodes.add(netloc)
RegisterPeer ==
    /\ nodes' = register_node(nodes, "http://a:5000")
    /\ UNCHANGED <<chain, current_transactions, last, submitted, promised, proper,
                   tvars>>

NextThreads ==
    \/ \E t \in Threads : TxLoad(t)
    \/ \E t \in Threads : TxAppend(t)
    \/ \E t \in Threads : TxReturn(t)
    \/ \E t \in Threads : MineRead(t)
    \/ \E t \in Threads : MineLoad(t)
    \/ \E t \in Threads : MineAppend(t)
    \/ \E t \in Threads : BlockBuild(t)
    \/ \E t \in Threads : BlockAppend(t)
    \/ \E t \in Threads : BlockReset(t)
    \/ \E t \in Threads : ResolveScan(t)
    \/ \E t \in Threads : ResolveInstall(t)
    \/ \E t \in Threads : ChainLoad(t)
    \/ \E t \in Threads : ChainLength(t)
    \/ \E t \in Threads : ChainRespond(t)
    \/ RegisterPeer

SpecThreads == Init /\ [][NextThreads]_vars

\* ---- proof_of_work called on its own ----
\* The arguments: every last_proof up to MaxLastProof and the genesis proof
LastProofs == (0..MaxLastProof) \cup {GenesisProof}

\* A fresh ledger, and a caller about to call proof_of_work(last_proof)
InitSolve ==
    \E last_proof \in LastProofs, t \in Times :
        /\ chain = new_block(<<>>, <<>>, GenesisProof, PyInt(GenesisPreviousHash), t).chain
        /\ current_transactions = <<>>
        /\ nodes = {}
        /\ last = [op |-> "call", last_proof |-> last_proof, ret |-> -1, first |-> -1]
        /\ submitted = <<>>
        /\ promised = <<>>
        /\ proper = TRUE
        /\ ThreadsIdle

\* proof_of_work(last_proof) returns
Solve ==
    /\ last.op = "call"
    /\ last' = [last EXCEPT !.op = "proof_of_work",
                            !.ret = proof_of_work(last.last_proof)]
    /\ UNCHANGED <<chain, current_transactions, nodes, submitted, promised, proper,
                   tvars>>

\* A second call with the same argument returns; first keeps what the first
\* call returned
SolveAgain ==
    /\ last.op = "proof_of_work"
    /\ last.first = -1
    /\ last' = [last EXCEPT !.first = last.ret,
                            !.ret = proof_of_work(last.last_proof)]
    /\ UNCHANGED <<chain, current_transactions, nodes, submitted, promised, proper,
                   tvars>>

NextSolve == Solve \/ SolveAgain

SpecSolve == InitSolve /\ [][NextSolve]_vars

\* ---- validate_chain called on its own ----
\* First blocks: the genesis block, one numbered 2, and one whose proof and
\* previous_hash are not those of a genesis block
FirstBlocks ==
    {PeerChain(1, 0)[1], PeerChain(1, 1)[1],
     [index |-> 1, timestamp |-> 0, transactions |-> <<>>, proof |-> 7,
      previous_hash |-> PyStr(<<0, 0, 0, 0, 0, 0, 0, 0>>)]}

\* The lists of n blocks: each block after the first is mined on its
\* predecessor and then left as it is, or given another previous_hash, or
\* given another proof
RECURSIVE BlockLists(_)
BlockLists(n) ==
    IF n = 0 THEN {<<>>}
    ELSE IF n = 1 THEN {<<b>> : b \in FirstBlocks}
    ELSE UNION {{PeerMined(c, 0), TamperHash(PeerMined(c, 0)),
                 TamperProof(PeerMined(c, 0))} : c \in BlockLists(n - 1)}

Arguments == UNION {BlockLists(n) : n \in 0..MaxBlocks}

\* The ledgers of the caller: fresh, with one pending transaction, and after
\* one mine
Ledgers ==
    {[chain |-> PeerChain(1, 0), current_transactions |-> <<>>],
     [chain |-> PeerChain(1, 0),
      current_transactions |-> new_transaction(PeerChain(1, 0), <<>>, <<65>>, <<66>>,
                                               2).current_transactions],
     [chain |-> mine(PeerChain(1, 0), <<>>, 0).chain, current_transactions |-> <<>>]}

\* A ledger, and a caller about to call validate_chain(blocks)
InitValidate ==
    \E blocks \in Arguments, ledger \in Ledgers :
        /\ chain = ledger.chain
        /\ current_transactions = ledger.current_transactions
        /\ nodes = {}
        /\ last = [op |-> "call", blocks0 |-> blocks, blocks |-> blocks,
                   chain0 |-> ledger.chain, pool0 |-> ledger.current_transactions,
                   exc |-> "None", ret |-> FALSE]
        /\ submitted = <<>>
        /\ promised = <<>>
        /\ proper = TRUE
        /\ ThreadsIdle

Validated(v) ==
    last' = [last EXCEPT !.op = "validate_chain", !.exc = v.exc, !.ret = v.val]

\* validate_chain(blocks) returns or raises; it assigns to nothing but its
\* locals
ValidateChain ==
    /\ last.op = "call"
    /\ Validated(validate_chain(last.blocks))
    /\ UNCHANGED <<chain, current_transactions, nodes, submitted, promised, proper,
                   tvars>>

NextValidate == ValidateChain

SpecValidate == InitValidate /\ [][NextValidate]_vars

\* ---- properties ----
\* The links of a chain: every block after the first carries the hash of its
\* predecessor and a proof valid for its predecessor's proof
Linked(c) ==
    \A i \in 2..Len(c) :
        /\ c[i].previous_hash = PyStr(hash(c[i - 1]))
        /\ validate_proof(c[i - 1].proof, c[i].proof)

C2_NoInvalidChain ==
    last.op = "resolve_conflicts" =>
        /\ (last.ret = TRUE \/ chain # last.chain0) =>
               (chain # <<>> /\ validate_chain(chain).val)
        /\ last.scan.greatest = {} => (last.ret = FALSE /\ chain = last.chain0)

\* A longer chain that fails validate_chain was offered and nothing was
\* replaced
C2_Witness ==
    /\ last.op = "resolve_conflicts"
    /\ last.scan.rejected
    /\ last.exc = "None"
    /\ last.ret = FALSE
    /\ chain = last.chain0

\* C3: in every state reached by complete new_transaction, mine and
\* resolve_conflicts operations the local chain is linked.
C3_ChainLinked == Linked(chain)

\* A block mined on top of a chain adopted from a peer
C3_Witness ==
    /\ last.op = "mine"
    /\ Len(chain) = 3
    /\ chain[2].transactions # <<>>
    /\ chain[2].transactions[1].recipient = PeerId
    /\ chain[3].transactions[Len(chain[3].transactions)].recipient = node_identifier

\* C4 as stated: every chain produced by new_block calls alone, whatever the
\* proof and previous_hash arguments, passes validate_chain.
C4_AnyArguments == validate_chain(chain).val

\* C4 amended: a chain produced by new_block calls alone passes
\* validate_chain when each call was given a proof valid for the last
\* block's proof and a previous_hash that is absent, falsy or the hash of the
\* last block.
C4_ProperArguments == proper => validate_chain(chain).val

\* Two such calls after the genesis block
C4_Witness ==
    /\ proper
    /\ last.op = "new_block"
    /\ Len(chain) = 3

\* C5: new_block returns and appends one block whose transactions are the
\* transactions submitted since the last block creation, in submission
\* order; the pool is empty afterwards and the earlier blocks are unchanged.
C5_PoolToBlock ==
    last.op = "new_block" =>
        /\ chain = Append(last.chain0, last.block)
        /\ last.block.transactions = last.submitted0
        /\ current_transactions = <<>>

\* Two different transactions were pending when the block was created
C5_Witness ==
    /\ last.op = "new_block"
    /\ Len(last.submitted0) = 2
    /\ last.submitted0[1] # last.submitted0[2]
    /\ Len(chain) = 3
    /\ chain[2].transactions # <<>>

\* C6 as stated: the block that takes a pending transaction carries the index
\* new_transaction returned for it, when no block creation and no chain
\* replacement came in between.
C6_PromisedIndex ==
    last.op = "mine" =>
        \A i \in 1..Len(last.promised0) :
            last.promised0[i] # 0 => last.block.index = last.promised0[i]

\* C7 as stated: a call in which some fetch failed raises nothing and ends as
\* the call without the failing peers would.
C7_FailureSkipped ==
    (last.op = "resolve_conflicts" /\ last.scan.failed) =>
        /\ last.exc = "None"
        /\ [exc |-> last.exc, ret |-> last.ret, chain |-> chain] = last.scan.without

\* C8 as stated: a call that returns True leaves a chain of more blocks than
\* before.
C8_StrictlyLonger ==
    (last.op = "resolve_conflicts" /\ last.ret = TRUE) =>
        Len(chain) > Len(last.chain0)

\* C9 as stated: every block's index is its 1-based position in the chain.
C9_IndexIsPosition == \A i \in 1..Len(chain) : chain[i].index = i

\* C10 as stated: mine appends one block with index one more than the
\* previous last block's, a proof valid for that block's proof, that block's
\* hash, and the pending transactions followed by the reward; the pool is
\* empty afterwards.
C10_Mine ==
    last.op = "mine" =>
        LET prev == last_block(last.chain0)
            new == last_block(chain)
        IN  /\ chain = Append(last.chain0, new)
            /\ new.index = prev.index + 1
            /\ validate_proof(prev.proof, new.proof)
            /\ new.previous_hash = PyStr(hash(prev))
            /\ new.transactions = Append(last.pool0, Reward)
            /\ current_transactions = <<>>

\* C11: proof_of_work(last_proof) returns a p for which validate_proof holds
\* and for which validate_proof is false at every smaller non-negative
\* integer; a second call with the same last_proof returns the same p.
C11_SmallestProof ==
    last.op = "proof_of_work" =>
        /\ last.ret >= 0
        /\ validate_proof(last.last_proof, last.ret)
        /\ \A q \in 0..(last.ret - 1) : ~validate_proof(last.last_proof, q)
        /\ last.first # -1 => last.first = last.ret

\* Two calls returned a proof that the search reached after several failures
C11_Witness ==
    /\ last.op = "proof_of_work"
    /\ last.first # -1
    /\ last.ret >= 3
    /\ ~validate_proof(last.last_proof, 0)

\* C12: on a list of at least one block validate_chain raises nothing and
\* returns True exactly when every adjacent pair is linked by hash and by
\* proof (so a single block is valid and the first block is checked against
\* nothing); the list, the local chain and the pool are as before the call,
\* and the result is the same whatever the ledger.
C12_ValidIffLinked ==
    (last.op = "validate_chain" /\ last.blocks0 # <<>>) =>
        /\ last.exc = "None"
        /\ last.ret <=> Linked(last.blocks0)
        /\ last.blocks = last.blocks0
        /\ chain = last.chain0
        /\ current_transactions = last.pool0

\* A list of three blocks whose first pair is linked and whose second pair
\* is not, checked on a ledger with a pending transaction
C12_Witness ==
    /\ last.op = "validate_chain"
    /\ Len(last.blocks0) = 3
    /\ Linked(SubSeq(last.blocks0, 1, 2))
    /\ last.ret = FALSE
    /\ current_transactions # <<>>

\* C13: a freshly created Blockchain has exactly one block, with index 1,
\* proof 100, previous_hash 1 and no transactions; its pool and its peer set
\* are empty.
C13_Genesis ==
    last.op = "init" =>
        /\ Len(chain) = 1
        /\ chain[1].index = 1
        /\ chain[1].proof = 100
        /\ chain[1].previous_hash = PyInt(1)
        /\ chain[1].transactions = <<>>
        /\ current_transactions = <<>>
        /\ nodes = {}

\* The ledger as __init__ leaves it: the block new_block returned is the chain
C13_Witness ==
    /\ last.op = "init"
    /\ chain = <<last.block>>
    /\ last.chain0 = <<>>

\* C14: in every state reached by new_transaction, mine, register_node and
\* resolve_conflicts operations, whatever chains and lengths the peers
\* report, the local chain has at least one block.
C14_NeverEmpty == Len(chain) >= 1

\* A peer reported an empty chain and a length greater than the local one;
\* the call ended in the IndexError of validate_chain and the chain is as
\* before
C14_Witness ==
    /\ last.op = "resolve_conflicts"
    /\ last.exc = "IndexError"
    /\ chain = last.chain0
    /\ Len(chain) = 1

\* C16 as stated: every peer is examined before the decision and only a
\* greater length displaces the best so far, so the chain installed is that
\* of the first response in scan order among the qualifying responses of
\* greatest length; when none qualifies nothing is installed.
C16_FirstOfGreatest ==
    last.op = "resolve_conflicts" =>
        IF last.scan.first = <<>>
        THEN chain = last.chain0 /\ last.ret = FALSE
        ELSE chain = last.scan.first /\ last.ret = TRUE

\* C17: a resolve_conflicts call leaves the pool and the peer set as they
\* were and, when it returns False, the chain too; a new_transaction call
\* leaves the chain and the peer set as they were; a register_node call
\* leaves the chain and the pool as they were.
C17_Frames ==
    [][/\ last'.op = "resolve_conflicts" =>
              /\ current_transactions' = current_transactions
              /\ nodes' = nodes
              /\ last'.ret = FALSE => chain' = chain
       /\ last'.op = "new_transaction" =>
              /\ chain' = chain
              /\ nodes' = nodes
       /\ last'.op = "register_node" =>
              /\ chain' = chain
              /\ current_transactions' = current_transactions]_vars

\* resolve_conflicts returned False on a ledger with a mined block, a pending
\* transaction and two peers, one of them offering a longer chain
C17_Witness ==
    /\ last.op = "resolve_conflicts"
    /\ last.exc = "None"
    /\ last.ret = FALSE
    /\ last.scan.rejected
    /\ Len(chain) = 2
    /\ current_transactions # <<>>
    /\ Cardinality(nodes) = 2

\* C15 as stated, in the part it spells out: whatever resolve_conflicts and
\* mine do while full_chain runs, the 'chain' of its response is one whole
\* chain and its 'length' is the number of blocks of that chain.
C15_ReaderAgrees ==
    \A t \in Threads :
        (local[t].op = "full_chain" /\ local[t].response # <<>>) =>
            Len(local[t].response[1].chain) = local[t].response[1].length

\* C18 as stated: in every step that is not a chain replacement, every block
\* of the chain stays at its position with the same index, timestamp,
\* transactions, proof and previous_hash, new_transaction steps between the
\* steps of new_block included.
C18_BlocksImmutable ==
    [][heap'.chain = heap.chain =>
           \A i \in 1..Len(chain) : Len(chain') >= i /\ chain'[i] = chain[i]]_vars

\* The amounts of the transactions whose append has been done, and the
\* blocks that hold the transaction of amount a
Submitted_ ==
    {a \in 2..(heap.sent + 1) :
        \A t \in Threads : ~(pc[t] = "t_append" /\ local[t].tx[1].amount = a)}

InPool(a) == \E j \in 1..Len(current_transactions) : current_transactions[j].amount = a

InBlocks(a) ==
    {i \in 1..Len(chain) :
        \E j \in 1..Len(chain[i].transactions) : chain[i].transactions[j].amount = a}

\* C19 as stated: while no chain replacement has happened, at every point of
\* every interleaving of the steps of new_transaction and new_block calls
\* each submitted transaction is either in the pool or in exactly one block,
\* never in both, in two blocks or in neither.
C19_Conservation ==
    ~heap.replaced =>
        \A a \in Submitted_ :
            \/ InPool(a) /\ InBlocks(a) = {}
            \/ ~InPool(a) /\ Cardinality(InBlocks(a)) = 1

\* C20 as stated: in every state reached by interleaving the steps of mine
\* operations with each other and with resolve_conflicts, the local chain
\* passes validate_chain and no two of its blocks carry the same index.
C20_ValidUnderMining ==
    /\ validate_chain(chain).val
    /\ \A i, j \in 1..Len(chain) : i # j => chain[i].index # chain[j].index

====
